---- MODULE Spec2Model ----
(***************************************************************************)
(* Model of the workflows pipeline runner: the registry of step            *)
(* implementations, make_workflow (lookup + parameter resolution), the     *)
(* loop of main that runs the configured steps one after the other, and    *)
(* the step bodies of the echo, http and command steps.  A second          *)
(* specification, ChainSpec, models execute of http.rs and command.rs as   *)
(* it is in src, where a step calls the step after it itself.              *)
(*                                                                         *)
(* A string is a sequence of one-character strings, so that to_lowercase   *)
(* and the placeholder scan of fulfill are computed character by           *)
(* character.  A HashMap is a function whose domain is its key set.        *)
(***************************************************************************)
EXTENDS Integers, Sequences, FiniteSets, TLC

\* ------------------------------------------------------------------ bounds

\* Longest configured pipeline.
MaxSteps == 3

\* ----------------------------------------------------------------- strings

EmptyStr == <<>>
EmptyMap == <<>>

s_http       == <<"h","t","t","p">>
s_echo       == <<"e","c","h","o">>
s_wechat     == <<"w","e","c","h","a","t">>
s_gist       == <<"g","i","s","t">>
s_command    == <<"c","o","m","m","a","n","d">>
s_download   == <<"d","o","w","n","l","o","a","d">>
s_decompress == <<"d","e","c","o","m","p","r","e","s","s">>

s_ECHO       == <<"E","C","H","O">>
s_Command    == <<"C","o","m","m","a","n","d">>
s_nope       == <<"n","o","p","e">>

s_url         == <<"u","r","l">>
s_method      == <<"m","e","t","h","o","d">>
s_status_code == <<"s","t","a","t","u","s","_","c","o","d","e">>
s_text        == <<"t","e","x","t">>
s_program     == <<"p","r","o","g","r","a","m">>
s_daemon      == <<"d","a","e","m","o","n">>
s_inherit_io  == <<"i","n","h","e","r","i","t","_","i","o">>
s_extra       == <<"e","x","t","r","a">>

s_true   == <<"t","r","u","e">>
s_false  == <<"f","a","l","s","e">>
s_A      == <<"A">>
s_ls     == <<"l","s">>
s_GET    == <<"G","E","T">>
s_200    == <<"2","0","0">>
s_404    == <<"4","0","4">>
s_HOME   == <<"H","O","M","E">>
s_root   == <<"/","r">>
s_u      == <<"u",":">>

\* "${text}-B", "${MISSING}", "${HOME}", "${status_code}", "u:${text}", "${text}"
s_text_B      == <<"$","{","t","e","x","t","}","-","B">>
s_ref_MISSING == <<"$","{","M","I","S","S","I","N","G","}">>
s_ref_HOME    == <<"$","{","H","O","M","E","}">>
s_ref_status  == <<"$","{">> \o s_status_code \o <<"}">>
s_ref_url     == s_u \o <<"$","{","t","e","x","t","}">>
s_ref_text    == <<"$","{","t","e","x","t","}">>

UpperCase == <<"A","B","C","D","E","F","G","H","I","J","K","L","M",
               "N","O","P","Q","R","S","T","U","V","W","X","Y","Z">>
LowerCase == <<"a","b","c","d","e","f","g","h","i","j","k","l","m",
               "n","o","p","q","r","s","t","u","v","w","x","y","z">>

\* Upper-case letter -> lower-case letter.
LowerOf == [c \in {UpperCase[n] : n \in 1..26} |->
               LowerCase[CHOOSE n \in 1..26 : UpperCase[n] = c]]

to_lowercase_char(c) == IF c \in DOMAIN LowerOf THEN LowerOf[c] ELSE c

\* str::to_lowercase, on the ASCII letters.
RECURSIVE to_lowercase(_)
to_lowercase(s) ==
    IF s = <<>> THEN <<>>
    ELSE <<to_lowercase_char(Head(s))>> \o to_lowercase(Tail(s))

Range(s) == {s[n] : n \in 1..Len(s)}

\* ---------------------------------------------------------------- registry

Http_PARAMS     == <<s_url, s_method>>
Http_OUTPUT     == <<s_status_code, s_text>>
Command_PARAMS  == <<s_program, s_daemon, s_inherit_io>>
Command_OUTPUT  == <<>>
Echo_PARAMS     == <<s_text>>
Echo_OUTPUT     == <<s_text>>

\* lazy_static WORKFLOWS: lower-case type name -> implementation.
WORKFLOWS ==
    (s_http :> "Http") @@ (s_echo :> "Echo") @@ (s_wechat :> "WeChat") @@
    (s_gist :> "Gist") @@ (s_command :> "Command") @@
    (s_download :> "Download") @@ (s_decompress :> "Decompress")

\* Workflow::parameters of the implementations whose descriptor is known.
parameters(w) ==
    CASE w = "Http"    -> Http_PARAMS
      [] w = "Command" -> Command_PARAMS
      [] w = "Echo"    -> Echo_PARAMS

\* Workflow::outputs.
outputs(w) ==
    CASE w = "Http"    -> Http_OUTPUT
      [] w = "Command" -> Command_OUTPUT
      [] w = "Echo"    -> Echo_OUTPUT

\* Variant: the name is looked up as it is written.
RegistryKeyExact(workflow_type) == workflow_type

\* The registry lookup of make_workflow: the key is the lower-cased name.
RegistryKey(workflow_type) == to_lowercase(workflow_type)

\* ---------------------------------------------------------------- resolver

\* Position of the first "}" at or after position n of raw, 0 if none.
RECURSIVE CloseAt(_, _)
CloseAt(raw, n) ==
    IF n > Len(raw) THEN 0
    ELSE IF raw[n] = "}" THEN n
    ELSE CloseAt(raw, n + 1)

\* Variant: the environment is looked up before last_output.
LookupEnvFirst(name, context) ==
    IF name \in DOMAIN context.env THEN [ok |-> TRUE, val |-> context.env[name]]
    ELSE IF name \in DOMAIN context.input THEN [ok |-> TRUE, val |-> context.input[name]]
    ELSE [ok |-> FALSE, val |-> EmptyStr]

\* The two tiers of a placeholder lookup: last_output, then the environment.
Lookup(name, context) ==
    IF name \in DOMAIN context.input THEN [ok |-> TRUE, val |-> context.input[name]]
    ELSE IF name \in DOMAIN context.env THEN [ok |-> TRUE, val |-> context.env[name]]
    ELSE [ok |-> FALSE, val |-> EmptyStr]

\* A placeholder "${name}" starts at position n of raw.
PlaceholderAt(raw, n) ==
    /\ raw[n] = "$"
    /\ n + 1 <= Len(raw)
    /\ raw[n + 1] = "{"
    /\ CloseAt(raw, n + 2) # 0

\* The name of the placeholder that starts at position n of raw.
PlaceholderName(raw, n) == SubSeq(raw, n + 2, CloseAt(raw, n + 2) - 1)

\* parser::fulfill from position n on, done being the text produced so far:
\* text is copied, a placeholder ${name} is replaced by the value of name,
\* inserted literally; an undefined name is an error.
RECURSIVE fulfillFrom(_, _, _, _)
fulfillFrom(raw, n, context, done) ==
    IF n > Len(raw) THEN [ok |-> TRUE, val |-> done]
    ELSE IF PlaceholderAt(raw, n)
    THEN IF Lookup(PlaceholderName(raw, n), context).ok
         THEN fulfillFrom(raw, CloseAt(raw, n + 2) + 1, context,
                          done \o Lookup(PlaceholderName(raw, n), context).val)
         ELSE [ok |-> FALSE, val |-> EmptyStr]
    ELSE fulfillFrom(raw, n + 1, context, Append(done, raw[n]))

fulfill(value, context) == fulfillFrom(value, 1, context, EmptyStr)

\* ----------------------------------------------------------- make_workflow

\* Variant: every configured parameter goes into the payload.
AllConfiguredKeys(w, config_parameters) == DOMAIN config_parameters

\* The names make_workflow resolves: declared by the step, present in the
\* configuration.
PayloadKeys(w, config_parameters) ==
    {key \in Range(parameters(w)) : key \in DOMAIN config_parameters}

\* Variant: a failed fulfill is not returned, the value is left empty.
SwallowResolution(failed) == FALSE

\* The error of a failed fulfill is returned by make_workflow ("?").
PropagateResolution(failed) == failed

\* Variant: an unknown name falls back to the echo step.
registry_get_or_echo(name) ==
    IF name \in DOMAIN WORKFLOWS
    THEN [found |-> TRUE, workflow |-> WORKFLOWS[name]]
    ELSE [found |-> TRUE, workflow |-> "Echo"]

\* WORKFLOWS.get(name): the implementation registered under name, if any.
registry_get(name) ==
    IF name \in DOMAIN WORKFLOWS
    THEN [found |-> TRUE, workflow |-> WORKFLOWS[name]]
    ELSE [found |-> FALSE, workflow |-> "none"]

\* Variant: every configured value is resolved first, the lookup comes after.
make_workflow_resolve_first(workflow_config, context) ==
    LET got == registry_get(RegistryKey(workflow_config.workflow_type))
        all == DOMAIN workflow_config.parameters
        value(key) == fulfill(workflow_config.parameters[key], context)
    IN  IF \E key \in all : ~value(key).ok
        THEN [ok |-> FALSE, err |-> "resolution", workflow |-> "none",
              payload |-> EmptyMap, resolved |-> all]
        ELSE IF ~got.found
        THEN [ok |-> FALSE, err |-> "lookup", workflow |-> "none",
              payload |-> EmptyMap, resolved |-> all]
        ELSE [ok |-> TRUE, err |-> "none", workflow |-> got.workflow,
              payload |-> [key \in PayloadKeys(got.workflow,
                                               workflow_config.parameters)
                              |-> value(key).val],
              resolved |-> all]

\* make_workflow: the lookup, then fulfill for every declared parameter the
\* configuration sets, in the order of parameters(); the first error is
\* returned.  resolved is the set of names fulfill was called for.
make_workflow(workflow_config, context) ==
    LET got == registry_get(RegistryKey(workflow_config.workflow_type))
    IN  IF ~got.found
        THEN [ok |-> FALSE, err |-> "lookup", workflow |-> "none",
              payload |-> EmptyMap, resolved |-> {}]
        ELSE
        LET w     == got.workflow
            ps    == parameters(w)
            keys  == PayloadKeys(w, workflow_config.parameters)
            value(key) == fulfill(workflow_config.parameters[key], context)
            bad   == {n \in 1..Len(ps) : ps[n] \in keys /\ ~value(ps[n]).ok}
            first == CHOOSE n \in bad : \A m \in bad : n <= m
        IN  IF PropagateResolution(bad # {})
            THEN [ok |-> FALSE, err |-> "resolution", workflow |-> w,
                  payload |-> EmptyMap,
                  resolved |-> {ps[n] : n \in {m \in 1..first : ps[m] \in keys}}]
            ELSE [ok |-> TRUE, err |-> "none", workflow |-> w,
                  payload |-> [key \in keys |-> value(key).val],
                  resolved |-> keys]

\* Payload::parameter: the value of key, "" when the payload has no such key.
parameter(payload, key) ==
    IF key \in DOMAIN payload THEN payload[key] ELSE EmptyStr

\* str::parse::<bool>().unwrap_or(false)
parse_bool(s) == s = s_true

\* ------------------------------------------------------------------- inputs

Cfg(t, p) == [workflow_type |-> t, parameters |-> p]

StepConfigs ==
    { Cfg(s_echo, s_text :> s_A),
      Cfg(s_echo, s_text :> s_text_B),
      Cfg(s_ECHO, (s_text :> s_ref_HOME) @@ (s_extra :> s_ref_MISSING)),
      Cfg(s_echo, s_text :> s_ref_status),
      Cfg(s_nope, s_text :> s_ref_MISSING),
      Cfg(s_http, (s_url :> s_ref_url) @@ (s_method :> s_GET)),
      Cfg(s_command, s_program :> s_ls),
      Cfg(s_Command, (s_program :> s_ls) @@ (s_daemon :> s_ref_text)) }

Configs == UNION {[1..n -> StepConfigs] : n \in 0..MaxSteps}

Environments == { s_HOME :> s_root, (s_HOME :> s_root) @@ (s_text :> s_false) }

\* What the outside world answers to an http request.
HttpResponses ==
    { [status_code |-> s_200, text |-> s_A],
      [status_code |-> s_404, text |-> s_true] }

\* -------------------------------------------------------------------- state

VARIABLES
    config,     \* Config.workflows
    context,    \* Context: env and input (the last output)
    i,          \* position of the loop of main in config
    pc,         \* "Pending", "Resolving", "Executing", "Waiting", "Succeeded",
                \* "Failed"; in the chained steps also "Unwinding"
    workflow,   \* the implementation make_workflow returned
    payload,    \* the payload make_workflow returned
    err,        \* the error main returned, "none" while there is none
    child,      \* step -> state of the process the step spawned
    called,     \* steps whose execute was called, in call order
    returned,   \* steps whose execute has returned, in return order
    selected,   \* step -> the implementation the lookup found for it
    received,   \* step -> payload handed to its execute
    observed,   \* step -> what its body read with Payload::parameter
    resolved,   \* step make_workflow was called for -> the parameter
                \* names fulfill was called for
    produced    \* step -> the output its execute returned

vars == <<config, context, i, pc, workflow, payload, err, child, called,
          returned, selected, received, observed, resolved, produced>>

\* Context::new: the environment is read, the input is empty.
Context_new(e) == [env |-> e, input |-> EmptyMap]

\* The process has started; the configuration is not read yet.
Init ==
    /\ config = <<>>
    /\ context = [env |-> EmptyMap, input |-> EmptyMap]
    /\ i = 1
    /\ pc = "Pending"
    /\ workflow = "none"
    /\ payload = EmptyMap
    /\ err = "none"
    /\ child = EmptyMap
    /\ called = <<>>
    /\ returned = <<>>
    /\ selected = EmptyMap
    /\ received = EmptyMap
    /\ observed = EmptyMap
    /\ resolved = EmptyMap
    /\ produced = EmptyMap

\* Variant: the context is created before the argument and the file are read.
StartupContextFirst ==
    /\ pc = "Pending"
    /\ \E e \in Environments : context' = Context_new(e)
    /\ \/ /\ pc' = "Failed"
          /\ err' = "startup"
          /\ UNCHANGED config
       \/ /\ config' \in Configs
          /\ pc' = "Resolving"
          /\ err' = err
    /\ UNCHANGED <<i, workflow, payload, child, called, returned, selected,
                   received, observed, resolved, produced>>

\* main, lines 120-127: the argument, the file and its structure are read,
\* a failure of any of them ends the run; then the context is created.
Startup ==
    /\ pc = "Pending"
    /\ \/ /\ pc' = "Failed"
          /\ err' = "startup"
          /\ UNCHANGED <<config, context>>
       \/ /\ config' \in Configs
          /\ \E e \in Environments : context' = Context_new(e)
          /\ pc' = "Resolving"
          /\ err' = err
    /\ UNCHANGED <<i, workflow, payload, child, called, returned, selected,
                   received, observed, resolved, produced>>

\* What a step body reads from its payload.
Observe(w, p) == [key \in Range(parameters(w)) |-> parameter(p, key)]

\* Variant: an error does not end the run, the loop takes the step again.
Retry(e) ==
    /\ pc' = "Resolving"
    /\ err' = err

\* The run ends with the error e: main returns it ("?").
Abort(e) ==
    /\ pc' = "Failed"
    /\ err' = e

\* Variant: the loop ends one item early.
NoneRemainEarly == i >= Len(config)

\* The iterator of the loop of main is exhausted.
NoneRemain == i > Len(config)

\* Variant: the loop goes on while a child is still waited for.
LoopReadyEarly == pc \in {"Resolving", "Waiting"}

\* The loop of main takes its next item only when the body of the previous
\* iteration is over.
LoopReady == pc = "Resolving"

\* Variant: the types of all configured steps are validated before any step
\* is made.
MakeValidated(k) ==
    IF \E n \in 1..Len(config) :
          ~registry_get(RegistryKey(config[n].workflow_type)).found
    THEN [ok |-> FALSE, err |-> "lookup", workflow |-> "none",
          payload |-> EmptyMap, resolved |-> {}]
    ELSE make_workflow(config[k], context)

\* main, line 129: make_workflow is called for the item the loop is at, with
\* the context as it is then.
Make(k) == make_workflow(config[k], context)

\* main, lines 128-130: the next configured step is looked up and resolved;
\* an error ends the run, otherwise execute is called with the payload.
LoopStep ==
    /\ LoopReady
    /\ ~NoneRemain
    /\ \E made \in {Make(i)} :
           /\ resolved' = (i :> made.resolved) @@ resolved
           /\ selected' = IF made.workflow = "none" THEN selected
                          ELSE (i :> made.workflow) @@ selected
           /\ IF made.ok
              THEN /\ pc' = "Executing"
                   /\ workflow' = made.workflow
                   /\ payload' = made.payload
                   /\ called' = Append(called, i)
                   /\ received' = (i :> made.payload) @@ received
                   /\ observed' = (i :> Observe(made.workflow, made.payload)) @@ observed
                   /\ err' = err
              ELSE /\ Abort(made.err)
                   /\ UNCHANGED <<workflow, payload, called, received, observed>>
    /\ UNCHANGED <<config, context, i, child, returned, produced>>

\* The next position of the loop.
NextStep(n) == n + 1

\* Variant: the returned payload is merged into context.input.
MergeInput(input, output) == output @@ input

\* Variant: the returned payload is dropped.
KeepInput(input, output) == input

\* main, lines 132-136: the returned payload replaces context.input.
ReplaceInput(input, output) == output

\* Variant: the returned payload is also exported to the environment.
StoreOutputAndExport(ctx, output) ==
    [env |-> output @@ ctx.env, input |-> ReplaceInput(ctx.input, output)]

\* main, line 132: only the input field of the context is assigned.
StoreOutput(ctx, output) ==
    [ctx EXCEPT !.input = ReplaceInput(ctx.input, output)]

\* Variant: the error of execute is noticed after the input was cleared.
InputCleared(input) == EmptyMap

\* main, line 130: the "?" returns before context.input is assigned.
InputAfterError(input) == input

\* execute returned Ok(output): main stores it and goes on with the loop.
ReturnOk(output) ==
    /\ context' = StoreOutput(context, output)
    /\ produced' = (i :> output) @@ produced
    /\ returned' = Append(returned, i)
    /\ i' = NextStep(i)
    /\ pc' = "Resolving"
    /\ UNCHANGED <<config, workflow, payload, err, called, selected, received,
                   observed, resolved>>

\* execute returned Err: main returns it ("?").
ReturnErr ==
    /\ Abort("step")
    /\ returned' = Append(returned, i)
    /\ context' = [context EXCEPT !.input = InputAfterError(context.input)]
    /\ UNCHANGED <<config, i, workflow, payload, called, selected,
                   received, observed, resolved, produced>>

\* Echo::execute: the text parameter is the text output.
EchoExecute ==
    /\ pc = "Executing"
    /\ workflow = "Echo"
    /\ ReturnOk(s_text :> parameter(payload, s_text))
    /\ UNCHANGED child

\* Variant: the result also carries the url that was requested.
Http_result_with_url(r, p) ==
    (s_status_code :> r.status_code) @@ (s_text :> r.text)
        @@ (s_url :> parameter(p, s_url))

\* Http::execute, lines 30-32: the result holds the status code and the body.
Http_result(r, p) == (s_status_code :> r.status_code) @@ (s_text :> r.text)

\* Http::execute: the method and the url are parsed, the request is sent,
\* the status code and the body are the output.
HttpExecute ==
    /\ pc = "Executing"
    /\ workflow = "Http"
    /\ UNCHANGED child
    /\ \/ ReturnErr
       \/ /\ parameter(payload, s_method) # EmptyStr
          /\ parameter(payload, s_url) # EmptyStr
          /\ \E r \in HttpResponses :
                ReturnOk(Http_result(r, payload))

\* Variant: only the value "false" makes the step wait for its child.
DaemonUnlessFalse(p) == parameter(p, s_daemon) # s_false

\* Command::execute, the daemon flag.
Daemon(p) == parse_bool(parameter(p, s_daemon))

\* Command::execute up to spawn: the child is started; a daemon is not
\* waited for.
CommandSpawn ==
    /\ pc = "Executing"
    /\ workflow = "Command"
    /\ \/ ReturnErr /\ UNCHANGED child
       \/ /\ parameter(payload, s_program) # EmptyStr
          /\ child' = (i :> "running") @@ child
          /\ IF Daemon(payload)
             THEN ReturnOk(EmptyMap)
             ELSE /\ pc' = "Waiting"
                  /\ UNCHANGED <<config, context, i, workflow, payload, err,
                                 called, returned, selected, received,
                                 observed, resolved, produced>>

\* Command::execute, handle.wait() of a child that has exited.
CommandWait ==
    /\ pc = "Waiting"
    /\ child[i] = "exited"
    /\ ReturnOk(EmptyMap)
    /\ UNCHANGED child

\* A spawned process ends.
ChildExit ==
    /\ \E k \in DOMAIN child :
          /\ child[k] = "running"
          /\ child' = [child EXCEPT ![k] = "exited"]
    /\ UNCHANGED <<config, context, i, pc, workflow, payload, err, called,
                   returned, selected, received, observed, resolved, produced>>

\* main, line 139: no step remains.
MainReturn ==
    /\ pc = "Resolving"
    /\ NoneRemain
    /\ pc' = "Succeeded"
    /\ UNCHANGED <<config, context, i, workflow, payload, err, child, called,
                   returned, selected, received, observed, resolved, produced>>

Next ==
    \/ Startup
    \/ LoopStep
    \/ EchoExecute
    \/ HttpExecute
    \/ CommandSpawn
    \/ CommandWait
    \/ ChildExit
    \/ MainReturn

Spec == Init /\ [][Next]_vars

\* Every step that can be taken is taken: a call that can return returns.
FairSpec == Spec /\ WF_vars(Next)

\* --------------------------------------------------- the chained steps
\* execute of http.rs and command.rs as it is in src: a step calls the execute
\* of the step after it itself, with its own result as the input.  Here i is
\* the frame that runs, called and returned are the frames entered and left,
\* received the input of a frame, produced the result it built, err the
\* result that travels back.

ChainStepConfigs == {Cfg(s_http, EmptyMap), Cfg(s_command, EmptyMap)}

ChainConfigs == UNION {[1..n -> ChainStepConfigs] : n \in 1..MaxSteps}

\* What the caller of the first step hands to it.
ChainInputs ==
    { (s_url :> s_u) @@ (s_method :> s_GET),
      (s_program :> s_ls) @@ (s_daemon :> s_true) }

\* The implementation of the k-th step of the chain c.
ChainKind(c, k) == WORKFLOWS[RegistryKey(c[k].workflow_type)]

\* context.next(): the step after the running one, if there is one.
ChainHasNext == i < Len(config)

\* next.execute(context, input): the frame k is entered.
ChainInvoke(k, kind, input) ==
    /\ called' = Append(called, k)
    /\ received' = (k :> input) @@ received
    /\ selected' = (k :> kind) @@ selected
    /\ workflow' = kind
    /\ payload' = input
    /\ i' = k
    /\ pc' = "Executing"

\* The running frame returns result to the frame that called it.
ChainReturnTo(result) ==
    /\ returned' = Append(returned, i)
    /\ err' = result
    /\ IF i = 1
       THEN /\ pc' = IF result = "none" THEN "Succeeded" ELSE "Failed"
            /\ UNCHANGED <<i, workflow, payload>>
       ELSE /\ pc' = "Unwinding"
            /\ i' = i - 1
            /\ workflow' = selected[i - 1]
            /\ payload' = received[i - 1]

\* The operation of the running frame has failed: its "?" returns the error.
ChainOwnFailure ==
    /\ ChainReturnTo("step")
    /\ UNCHANGED <<config, context, called, selected, received, resolved,
                   produced>>

\* The operation of the running frame has succeeded with result: the next
\* step, if any, is called with it, otherwise the frame returns Ok.
ChainContinue(result) ==
    /\ produced' = (i :> result) @@ produced
    /\ IF ChainHasNext
       THEN /\ ChainInvoke(i + 1, ChainKind(config, i + 1), result)
            /\ UNCHANGED <<err, returned>>
       ELSE /\ ChainReturnTo("none")
            /\ UNCHANGED <<called, selected, received>>
    /\ UNCHANGED <<config, context, resolved>>

\* The first step of a chain is called.
ChainStart ==
    /\ pc = "Pending"
    /\ config' \in ChainConfigs
    /\ \E input \in ChainInputs : ChainInvoke(1, ChainKind(config', 1), input)
    /\ UNCHANGED <<context, err, child, returned, observed, resolved, produced>>

\* Http::execute up to the call of the next step.
ChainHttp ==
    /\ pc = "Executing"
    /\ workflow = "Http"
    /\ UNCHANGED <<child, observed>>
    /\ \/ ChainOwnFailure
       \/ \E r \in HttpResponses : ChainContinue(Http_result(r, payload))

\* Command::execute up to spawn; d is what the frame reads as its daemon
\* parameter.
ChainCommandSpawn ==
    /\ pc = "Executing"
    /\ workflow = "Command"
    /\ \E d \in {s_true, s_false} :
          /\ observed' = (i :> (s_daemon :> d)) @@ observed
          /\ \/ ChainOwnFailure /\ UNCHANGED child
             \/ /\ child' = (i :> "running") @@ child
                /\ IF parse_bool(d)
                   THEN ChainContinue(EmptyMap)
                   ELSE /\ pc' = "Waiting"
                        /\ UNCHANGED <<config, context, i, workflow, payload,
                                       err, called, returned, selected,
                                       received, resolved, produced>>

\* Command::execute, handle.wait()? and the call of the next step.
ChainCommandWait ==
    /\ pc = "Waiting"
    /\ child[i] = "exited"
    /\ UNCHANGED <<child, observed>>
    /\ \/ ChainOwnFailure
       \/ ChainContinue(EmptyMap)

\* Variant: the error of the next step is dropped, the frame returns Ok.
SwallowDownstream(e) == "none"

\* next.execute(..)?: the error of the next step is the result of the frame.
PropagateDownstream(e) == e

\* The call of the next step has returned: the frame returns.
ChainUnwind ==
    /\ pc = "Unwinding"
    /\ ChainReturnTo(PropagateDownstream(err))
    /\ UNCHANGED <<config, context, child, called, selected, received,
                   observed, resolved, produced>>

ChainNext ==
    \/ ChainStart
    \/ ChainHttp
    \/ ChainCommandSpawn
    \/ ChainCommandWait
    \/ ChildExit
    \/ ChainUnwind

ChainSpec == Init /\ [][ChainNext]_vars

\* ------------------------------------------------------------- properties

\* a and b are the same name up to the case of their letters.
EqualIgnoreCase(a, b) ==
    /\ Len(a) = Len(b)
    /\ \A n \in 1..Len(a) :
          \/ a[n] = b[n]
          \/ \E m \in 1..26 : {a[n], b[n]} = {UpperCase[m], LowerCase[m]}

\* The registry keys that name the type of step k.
KeysOf(k) ==
    {key \in DOMAIN WORKFLOWS : EqualIgnoreCase(config[k].workflow_type, key)}

\* The type of step k is not in the registry.
Unknown(k) == KeysOf(k) = {}

\* The parameter names the implementation of step k declares.
DeclaredBy(k) == Range(parameters(WORKFLOWS[CHOOSE key \in KeysOf(k) : TRUE]))

\* The names of the placeholders of raw, from position n on.
RECURSIVE PlaceholdersFrom(_, _)
PlaceholdersFrom(raw, n) ==
    IF n > Len(raw) THEN {}
    ELSE IF PlaceholderAt(raw, n)
    THEN {PlaceholderName(raw, n)}
             \cup PlaceholdersFrom(raw, CloseAt(raw, n + 2) + 1)
    ELSE PlaceholdersFrom(raw, n + 1)

\* raw references a variable that neither tier of ctx defines.
Undefined(raw, ctx) ==
    \E name \in PlaceholdersFrom(raw, 1) :
        name \notin (DOMAIN ctx.env \cup DOMAIN ctx.input)

\* make_workflow has been called for step i and the loop has not moved on:
\* context is still the one step i was resolved against.
AtStep == pc \in {"Executing", "Waiting", "Failed"} /\ i \in DOMAIN resolved

Terminal == {"Succeeded", "Failed"}

Last(S) == CHOOSE k \in S : \A n \in S : n <= k

C2_AnyConfiguredParameter ==
    (/\ AtStep
     /\ \E key \in DOMAIN config[i].parameters :
           Undefined(config[i].parameters[key], context))
    => (/\ pc = "Failed"
        /\ err = "resolution"
        /\ \A n \in Range(called) : n < i)

\* C2, amended: the same for a step whose type is registered and a parameter
\* that the step declares.
C2_DeclaredParameter ==
    (/\ AtStep
     /\ ~Unknown(i)
     /\ \E key \in DOMAIN config[i].parameters \cap DeclaredBy(i) :
           Undefined(config[i].parameters[key], context))
    => (/\ pc = "Failed"
        /\ err = "resolution"
        /\ \A n \in Range(called) : n < i)

C2_Witness ==
    /\ err = "resolution"
    /\ i = 2
    /\ called = <<1>>
    /\ Len(config) = 3
    /\ Undefined(config[2].parameters[s_text], context)

\* C3: context.input is exactly the output of the last step that returned
\* successfully (empty before the first), its keys are output names of that
\* step, and no other key of an earlier output is left in it.
C3_OutputIsolation ==
    IF DOMAIN produced = {} THEN context.input = EmptyMap
    ELSE LET k == Last(DOMAIN produced)
         IN  /\ context.input = produced[k]
             /\ DOMAIN context.input \subseteq Range(outputs(selected[k]))
             /\ \A n \in DOMAIN produced : \A key \in DOMAIN produced[n] :
                   key \in DOMAIN context.input => key \in DOMAIN produced[k]

C3_Witness ==
    /\ DOMAIN produced = {1, 2}
    /\ s_status_code \in DOMAIN produced[1]
    /\ s_status_code \notin DOMAIN context.input

\* C4: when the step the run has reached has a type that is not in the
\* registry, the run has failed with a lookup error, nothing was resolved for
\* that step, its execute was not called, and no later step was looked up,
\* resolved or executed.
C4_UnknownTypeFailFast ==
    (AtStep /\ Unknown(i))
    => (/\ pc = "Failed"
        /\ err = "lookup"
        /\ i \notin DOMAIN selected
        /\ resolved[i] = {}
        /\ \A n \in i..Len(config) :
              /\ n \notin Range(called)
              /\ n > i => n \notin DOMAIN resolved)

C4_Witness == err = "lookup" /\ i = 2 /\ Len(config) = 3 /\ called = <<1>>

\* C5 as stated: a configuration with a step of an unknown type, at any
\* position, never has an execute call.
C5_NoExecuteAtAll ==
    (pc # "Pending" /\ \E k \in 1..Len(config) : Unknown(k)) => called = <<>>

\* C5, amended: with a step of an unknown type in the configuration the run
\* never succeeds, the first such step and the steps after it are never
\* executed, and a lookup error is raised when exactly the steps before the
\* first such step have been executed: before any execute call when that step
\* is the first of the list.
C5_NoExecuteFromUnknown ==
    (pc # "Pending" /\ \E k \in 1..Len(config) : Unknown(k))
    => LET f == CHOOSE k \in 1..Len(config) :
                    Unknown(k) /\ \A n \in 1..(k - 1) : ~Unknown(n)
       IN  /\ pc # "Succeeded"
           /\ \A n \in Range(called) : n < f
           /\ err = "lookup" => (i = f /\ called = [n \in 1..(f - 1) |-> n])
           /\ (f = 1 /\ pc # "Resolving")
                 => (pc = "Failed" /\ err = "lookup" /\ called = <<>>)

C5_Witness ==
    /\ err = "lookup"
    /\ i = 1
    /\ Len(config) = 2
    /\ ~Unknown(2)

\* C6: the payload a step after the first receives is its configuration
\* resolved against the output of the step before it: a parameter that is
\* one placeholder naming a key of that output is the value of that key, and
\* echo "A" followed by echo "${text}-B" hands "A-B" to the second step.
C6_OutputPropagation ==
    /\ \A k \in DOMAIN received : k > 1 =>
          /\ received[k] =
                make_workflow(config[k],
                    [env |-> context.env, input |-> produced[k - 1]]).payload
          /\ \A key \in DOMAIN received[k] : \A name \in DOMAIN produced[k - 1] :
                config[k].parameters[key] = <<"$", "{">> \o name \o <<"}">>
                   => received[k][key] = produced[k - 1][name]
    /\ (/\ Len(config) >= 2
        /\ config[1] = Cfg(s_echo, s_text :> s_A)
        /\ config[2] = Cfg(s_echo, s_text :> s_text_B)
        /\ 2 \in DOMAIN received)
       => received[2][s_text] = <<"A", "-", "B">>

C6_Witness ==
    /\ Len(config) = 2
    /\ config[1] = Cfg(s_echo, s_text :> s_A)
    /\ config[2] = Cfg(s_echo, s_text :> s_text_B)
    /\ s_text \in DOMAIN context.env
    /\ 2 \in DOMAIN received

\* The called steps are a prefix of the list; an error is a failed run.
C7_Prefix ==
    /\ Len(called) <= Len(config)
    /\ \A n \in 1..Len(called) : called[n] = n
    /\ err # "none" <=> pc = "Failed"

\* The step that fails calls nothing; a failed run does nothing more.
C7_Abort ==
    /\ (err = "none" /\ err' # "none") => (pc' = "Failed" /\ called' = called)
    /\ pc = "Failed" =>
          /\ pc' = "Failed"
          /\ err' = err
          /\ called' = called
          /\ resolved' = resolved
          /\ selected' = selected
          /\ context' = context

\* C7: the steps whose execute was called are the first steps of the list,
\* each called once; there is an error exactly when the run has failed; the
\* step that sets the error ends the run without a call, and a failed run
\* looks up, resolves, calls and stores nothing more.
C7_FailFast == []C7_Prefix /\ [][C7_Abort]_vars

C7_Witness ==
    /\ pc = "Failed"
    /\ err = "step"
    /\ i = 2
    /\ Len(config) = 3
    /\ called = <<1, 2>>

\* What a terminal state says about the steps of the run.
C8_Outcome ==
    /\ pc = "Succeeded" =>
          /\ err = "none"
          /\ DOMAIN resolved = 1..Len(config)
          /\ DOMAIN selected = 1..Len(config)
          /\ Range(called) = 1..Len(config)
          /\ DOMAIN produced = 1..Len(config)
    /\ pc = "Failed" =>
          /\ err # "none"
          /\ \/ err = "startup"
             \/ i \in 1..Len(config) /\ i \notin DOMAIN produced

\* No step leaves a terminal state.
C8_Stay == pc \in Terminal => pc' = pc

\* C8: every run ends in Succeeded or Failed and stays there; it has
\* succeeded only without an error and with every configured step looked up,
\* resolved and executed; it has failed only with an error, at startup or at
\* a configured step that did not complete.
C8_Termination ==
    /\ <>(pc \in Terminal)
    /\ []C8_Outcome
    /\ [][C8_Stay]_vars

C8_Witness == pc = "Succeeded" /\ Len(config) = 3 /\ Len(returned) = 3

\* C9: a payload has exactly the keys the step declares and the
\* configuration sets; fulfill is called for declared names only; a declared
\* parameter the configuration does not set is not in the payload and the
\* step reads it as the empty string.
C9_DeclaredOnly ==
    /\ \A k \in DOMAIN selected :
          resolved[k] \subseteq Range(parameters(selected[k]))
    /\ \A k \in DOMAIN received :
          LET declared   == Range(parameters(selected[k]))
              configured == DOMAIN config[k].parameters
          IN  /\ DOMAIN received[k] \subseteq declared
              /\ DOMAIN received[k] = declared \cap configured
              /\ resolved[k] = declared \cap configured
              /\ \A key \in declared \ configured :
                    /\ key \notin DOMAIN received[k]
                    /\ observed[k][key] = EmptyStr
              /\ \A key \in declared \cap configured :
                    observed[k][key] = received[k][key]

C9_Witness ==
    /\ \E k \in DOMAIN received :
          /\ s_extra \in DOMAIN config[k].parameters
          /\ Undefined(config[k].parameters[s_extra], context)
    /\ \E k \in DOMAIN received :
          /\ selected[k] = "Command"
          /\ s_daemon \notin DOMAIN config[k].parameters
          /\ observed[k][s_daemon] = EmptyStr

\* C10: steps whose type names differ only in letter case are both rejected
\* or both given the same implementation, the one registered under the
\* lower-case name; a name is rejected exactly when its lower-cased form is
\* not a registry key.
C10_CaseInsensitive ==
    /\ \A j \in DOMAIN resolved : \A k \in DOMAIN resolved :
          EqualIgnoreCase(config[j].workflow_type, config[k].workflow_type)
          => /\ j \in DOMAIN selected <=> k \in DOMAIN selected
             /\ (j \in DOMAIN selected /\ k \in DOMAIN selected)
                   => selected[j] = selected[k]
    /\ \A k \in DOMAIN resolved :
          /\ k \notin DOMAIN selected
                <=> to_lowercase(config[k].workflow_type) \notin DOMAIN WORKFLOWS
          /\ \A key \in KeysOf(k) :
                k \in DOMAIN selected /\ selected[k] = WORKFLOWS[key]

C10_Witness ==
    \E j \in DOMAIN selected : \E k \in DOMAIN selected :
        /\ config[j].workflow_type # config[k].workflow_type
        /\ EqualIgnoreCase(config[j].workflow_type, config[k].workflow_type)
        /\ selected[j] = "Echo"

\* The daemon parameter handed to step k is "true".
DaemonTrue(k) ==
    s_daemon \in DOMAIN received[k] /\ received[k][s_daemon] = s_true

\* While the child of a step that is not a daemon runs, the run waits in
\* that step and no later step has been called; a daemon step never waits.
C11_Blocking ==
    /\ \A k \in DOMAIN child :
          (~DaemonTrue(k) /\ child[k] = "running")
          => (/\ pc = "Waiting"
              /\ i = k
              /\ k \notin Range(returned)
              /\ \A n \in Range(called) : n <= k)
    /\ pc = "Waiting" => ~DaemonTrue(i)

\* The step that spawns the child of a daemon step is the step that returns
\* from it, the child still running.
C11_NoWait ==
    \A k \in DOMAIN child' \ DOMAIN child :
        DaemonTrue(k)
        => (/\ child'[k] = "running"
            /\ returned' = Append(returned, k)
            /\ pc' = "Resolving"
            /\ i' = k + 1)

InputOf(k) == IF k = 1 THEN EmptyMap ELSE produced[k - 1]

\* The positions of raw where its only placeholder starts.
OnlyPlaceholderAt(raw) ==
    {p \in 1..Len(raw) :
        /\ PlaceholderAt(raw, p)
        /\ PlaceholdersFrom(SubSeq(raw, 1, p - 1), 1) = {}
        /\ PlaceholdersFrom(raw, CloseAt(raw, p + 2) + 1) = {}}

\* C12: in the payload of a step, a placeholder whose name is a key of the
\* last output stands for the value of the last output, also when the
\* environment defines the name; it stands for the value of the environment
\* only when the last output has no such key.
C12_LastOutputFirst ==
    \A k \in DOMAIN received : \A key \in DOMAIN received[k] :
        LET raw == config[k].parameters[key]
        IN  \A p \in OnlyPlaceholderAt(raw) :
                LET name == PlaceholderName(raw, p)
                    pre  == SubSeq(raw, 1, p - 1)
                    post == SubSeq(raw, CloseAt(raw, p + 2) + 1, Len(raw))
                IN  /\ name \in DOMAIN InputOf(k)
                          => received[k][key] = pre \o InputOf(k)[name] \o post
                    /\ name \notin DOMAIN InputOf(k)
                          => /\ name \in DOMAIN context.env
                             /\ received[k][key] = pre \o context.env[name] \o post

C12_Witness ==
    /\ 2 \in DOMAIN received
    /\ config[2].parameters[s_text] = s_text_B
    /\ s_text \in DOMAIN produced[1]
    /\ s_text \in DOMAIN context.env
    /\ produced[1][s_text] # context.env[s_text]
    /\ received[2][s_text] = produced[1][s_text] \o <<"-", "B">>

\* The environment of a created context does not change; the input changes
\* only in the step in which execute of the current step returns, and it
\* becomes the output of that step.
C13_Frame ==
    /\ pc # "Pending" => context'.env = context.env
    /\ context'.input # context.input
          => /\ pc \in {"Executing", "Waiting"}
             /\ returned' = Append(returned, i)
             /\ i \in DOMAIN produced'
             /\ context'.input = produced'[i]

\* C13: the environment is captured when the context is created and no
\* later step of the run changes it; only last_output is written, by main
\* when an execute returns.
C13_EnvironmentFrozen ==
    /\ []((pc # "Pending" /\ err # "startup") => context.env \in Environments)
    /\ [][C13_Frame]_vars

C13_Witness ==
    /\ pc = "Succeeded"
    /\ Len(returned) = 3
    /\ context.input # EmptyMap
    /\ s_text \in DOMAIN context.env

\* Until the run has moved on from step i, last_output is the output of the
\* step before it, also when step i has failed.
C14_Kept ==
    (pc \in {"Executing", "Waiting", "Failed"} /\ err # "startup")
    => context.input = InputOf(i)

\* The step that looks up and resolves a step does not change last_output.
C14_ReadOnly == DOMAIN resolved' # DOMAIN resolved => context' = context

\* C14: last_output is replaced only when execute has returned successfully:
\* after a lookup, resolution or execute error of step k it is the output of
\* step k-1, empty for the first step, and resolving a step leaves it as it
\* is.
C14_ReplacedOnSuccess == []C14_Kept /\ [][C14_ReadOnly]_vars

C14_Witness ==
    /\ pc = "Failed"
    /\ err = "step"
    /\ i = 2
    /\ context.input # EmptyMap
    /\ context.input = produced[1]

\* The phases of every step, as the history records them.
C15_Phases ==
    /\ \A k \in DOMAIN resolved :
          /\ resolved[k] # {} => k \in DOMAIN selected
          /\ k > 1 => (k - 1) \in Range(returned) /\ (k - 1) \in DOMAIN produced
    /\ \A k \in Range(called) :
          /\ k \in DOMAIN resolved /\ k \in DOMAIN selected
          /\ resolved[k] = PayloadKeys(selected[k], config[k].parameters)
          /\ DOMAIN received[k] = resolved[k]
    /\ (pc = "Failed" /\ i \in DOMAIN resolved /\ Unknown(i))
          => (err = "lookup" /\ resolved[i] = {} /\ i \notin DOMAIN selected)

\* The step that resolves step i runs against the output of step i-1.
C15_AfterReplace ==
    DOMAIN resolved' # DOMAIN resolved
       => /\ DOMAIN resolved' = DOMAIN resolved \cup {i}
          /\ context.input = InputOf(i)
          /\ \A k \in 1..(i - 1) : k \in Range(returned)

\* C15: for every step the registry lookup comes before any resolution, all
\* resolution of the step has succeeded when its execute is called, and the
\* next step is resolved only after execute has returned and last_output is
\* replaced; a step with an unknown type and an undefined placeholder fails
\* with the lookup error.
C15_PhaseOrder == []C15_Phases /\ [][C15_AfterReplace]_vars

C15_Witness ==
    /\ pc = "Failed"
    /\ err = "lookup"
    /\ i = 2
    /\ Len(returned) = 1
    /\ Undefined(config[2].parameters[s_text], context)

\* What the step after a process step can resolve: the environment only.
EnvOnly == [env |-> context.env, input |-> EmptyMap]

\* C16: every key of the output of a step is a name its implementation
\* declares in outputs(): the http step hands on exactly status_code and
\* text, the process step hands on the empty mapping, and the parameters of
\* the step after a process step are resolved from the environment alone.
C16_DeclaredOutputs ==
    /\ \A k \in DOMAIN produced :
          /\ DOMAIN produced[k] \subseteq Range(outputs(selected[k]))
          /\ selected[k] = "Http" => DOMAIN produced[k] = {s_status_code, s_text}
          /\ selected[k] = "Command" => produced[k] = EmptyMap
    /\ \A k \in DOMAIN resolved :
          (k > 1 /\ selected[k - 1] = "Command")
             => /\ \A key \in resolved[k] :
                      LET v == fulfill(config[k].parameters[key], EnvOnly)
                      IN  IF k \in DOMAIN received
                          THEN v.ok /\ received[k][key] = v.val
                          ELSE TRUE
                /\ (k \notin DOMAIN received /\ k \in DOMAIN selected)
                      => \E key \in resolved[k] :
                            ~fulfill(config[k].parameters[key], EnvOnly).ok

C16_Witness ==
    /\ pc = "Failed"
    /\ err = "resolution"
    /\ i = 3
    /\ selected[1] = "Http"
    /\ s_status_code \in DOMAIN produced[1]
    /\ selected[2] = "Command"
    /\ produced[2] = EmptyMap
    /\ config[3] = Cfg(s_echo, s_text :> s_ref_status)

\* The run has failed at step i: the steps before it were executed once and
\* what they did is still there, and the error is one of step i itself.
C17_Remains ==
    (pc = "Failed" /\ err # "startup")
    => /\ called = [n \in 1..Len(called) |-> n]
       /\ \A k \in 1..(i - 1) :
             /\ k \in Range(called) /\ k \in Range(returned)
             /\ k \in DOMAIN produced
             /\ selected[k] = "Command" => k \in DOMAIN child
       /\ DOMAIN child \subseteq 1..i
       /\ err = "lookup" => Unknown(i) /\ Len(called) = i - 1
       /\ err = "resolution"
             => /\ ~Unknown(i)
                /\ Len(called) = i - 1
                /\ \E key \in DeclaredBy(i) \cap DOMAIN config[i].parameters :
                      Undefined(config[i].parameters[key], context)

\* Failing, and every step after the failure, undoes and re-runs nothing.
C17_NoUndo ==
    (pc' = "Failed" /\ err' # "startup")
    => /\ produced' = produced
       /\ DOMAIN child \subseteq DOMAIN child'
       /\ \A k \in DOMAIN child : child[k] = "exited" => child'[k] = "exited"
       /\ called' = called
       /\ i' = i

\* C17: when the run fails at step k, what the steps before k did stays in
\* place, nothing is undone or run again, and a lookup or resolution error
\* of step k appears only after the steps before k have been executed.
C17_NoCompensation == []C17_Remains /\ [][C17_NoUndo]_vars

C17_Witness ==
    /\ pc = "Failed"
    /\ err = "lookup"
    /\ i = 3
    /\ Len(returned) = 2
    /\ 2 \in DOMAIN child
    /\ child[2] = "running"
    /\ DaemonTrue(2)

\* C18: a startup error (no argument, unreadable or malformed file) ends the
\* run before the context is created and before any step is looked up,
\* resolved or executed; a run in which a step was made has a context.
C18_StartupFailsFirst ==
    /\ err = "startup"
          => /\ pc = "Failed"
             /\ context = [env |-> EmptyMap, input |-> EmptyMap]
             /\ config = <<>>
             /\ resolved = EmptyMap /\ selected = EmptyMap
             /\ called = <<>> /\ returned = <<>>
             /\ child = EmptyMap /\ produced = EmptyMap
    /\ DOMAIN resolved # {}
          => err # "startup" /\ context.env \in Environments

C18_Witness == pc = "Failed" /\ err = "startup" /\ context.env = EmptyMap

\* The frames whose own operation has failed.
OwnFailed == {k \in Range(returned) : k \notin DOMAIN produced}

\* The chain as the history records it.
C19_Frames ==
    /\ called = [n \in 1..Len(called) |-> n]
    /\ \A k \in Range(called) :
          k > 1 =>
             /\ (k - 1) \in DOMAIN produced
             /\ received[k] = produced[k - 1]
             /\ selected[k - 1] = "Http"
                   => DOMAIN received[k] = {s_status_code, s_text}
             /\ selected[k - 1] = "Command"
                   => /\ received[k] = EmptyMap
                      /\ (k - 1) \in DOMAIN child
                      /\ observed[k - 1][s_daemon] # s_true
                            => child[k - 1] = "exited"
             /\ (k - 1) \in Range(returned) => k \in Range(returned)
    /\ \A k \in OwnFailed : (k + 1) \notin Range(called)
    /\ OwnFailed # {}
          => /\ err = "step"
             /\ pc \in {"Unwinding", "Failed"}
             /\ \A k \in Range(called) : k > i => k \in Range(returned)
    /\ pc = "Failed" => (OwnFailed # {} /\ Range(returned) = Range(called))
    /\ pc = "Succeeded"
          => /\ OwnFailed = {}
             /\ DOMAIN produced = 1..Len(config)
             /\ Range(returned) = Range(called)

\* A frame that returns while an error travels back returns that error.
C19_Passes == (returned' # returned /\ err = "step") => err' = "step"

\* C19: in the chained http and process steps a step calls the next step
\* only after its own operation has succeeded and with its own result only,
\* a step whose own operation fails never calls the next step, and the error
\* of a step is the result of the execute of every step that encloses it.
C19_ChainPropagation == []C19_Frames /\ [][C19_Passes]_vars

C19_Witness ==
    /\ pc = "Failed"
    /\ Len(called) = 3
    /\ Len(returned) = 3
    /\ OwnFailed = {3}
    /\ selected[2] = "Command"
    /\ received[2] # received[1]

====
